---- MODULE Spec2Model ----
(***************************************************************************)
(* Drip transaction lifecycle of the faucet worker: the BullMQ job handler *)
(* (apps/worker/src/worker.ts), the retry policy (packages/shared/src/     *)
(* retry.ts) and the broadcast reconciler (reconciler.ts), together with   *)
(* the Redis locks, the requests table and the chain they act on.          *)
(***************************************************************************)
EXTENDS Integers, Sequences, FiniteSets, TLC

(***************************************************************************)
(* Bounds of the model.                                                    *)
(***************************************************************************)
NumRequests == 1      \* rows of the requests table / jobs in the queue
NumCycles == 1        \* reconciler timer callbacks that may be in progress
MaxTx == 2            \* transfers the chain accepts in one behaviour
MaxScript == 4        \* longest run of failures of an operation under retryRpc
MaxMaxRetries == 3    \* largest maxRetries argument tried on retryRpc
BATCH == 2            \* reconciler page size: RECONCILE_BATCH, 200 unless set
MAX_LOOPS == 2        \* reconciler pages per cycle: RECONCILE_MAX_LOOPS, 20 unless set
NumRows == 3          \* rows of the table the reconciler is run on by itself
NumSweepers == 2      \* reconciler cycles in progress when run by itself
amountWei == 2        \* the drip in wei: DRIP_AMOUNT_ETH, 0.02 ether unless set
FALLBACK_GAS_LIMIT == 2 \* FALLBACK_GAS_LIMIT, 21000 unless set
GasEstimate == 1      \* what estimateGas answers when it answers
MaxFee == 4           \* largest maxFeePerGas the node quotes

(***************************************************************************)
(* Program constants.                                                      *)
(***************************************************************************)
Concurrency == 2      \* worker.ts: concurrency: 2
maxAttempts == 4      \* worker.ts: acquireLockWithBackoff
maxRetries == 3       \* retry.ts: default of retryRpc
MAX_FEE_BUMP_MULT == 125 \* worker.ts: MAX_FEE_BUMP_MULT 1.25, in hundredths as bumpBig scales it


Reqs == 1..NumRequests
Procs == 1..Concurrency
Cycles == 1..NumCycles
Hashes == 1..MaxTx
NULL == 0

(***************************************************************************)
(* Errors as retry.ts sees them: toStatus (0 stands for NaN), toCode       *)
(* (upper-cased), toMsg (lower-cased).                                     *)
(***************************************************************************)
Err(status, code, msg) == [status |-> status, code |-> code, msg |-> msg]

NetworkErr     == Err(0, "NETWORK_ERROR", "could not detect network")
WaitTimeout    == Err(0, "TIMEOUT", "timeout")
ConnReset      == Err(0, "", "read econnreset")
Http429        == Err(429, "", "too many requests")
Http500        == Err(500, "", "internal server error")
Http403Rate    == Err(403, "", "rate limit exceeded")
Http403        == Err(403, "", "forbidden")
Http400        == Err(400, "", "bad request")
Http401        == Err(401, "", "unauthorized")
Http404        == Err(404, "", "not found")
Reverted       == Err(0, "CALL_EXCEPTION", "execution reverted")
BadGas         == Err(0, "UNPREDICTABLE_GAS_LIMIT", "cannot estimate gas")
InvalidArg     == Err(0, "INVALID_ARGUMENT", "invalid address")
RpcNoFunds     == Err(0, "INSUFFICIENT_FUNDS", "insufficient funds for intrinsic transaction cost")
Http500Revert  == Err(500, "", "execution reverted")
NetBadResponse == Err(0, "NETWORK_ERROR", "bad response")
UnknownErr     == Err(0, "", "unexpected failure")
\* worker.ts:72
NoFunds        == Err(0, "", "insufficient funds in faucet wallet for amount+fees")
\* pg: pool connectionTimeoutMillis elapsed / connection lost
DbTimeout      == Err(0, "", "timeout exceeded when trying to connect")
DbTerminated   == Err(0, "", "connection terminated unexpectedly")

AllErrors ==
  { NetworkErr, WaitTimeout, ConnReset, Http429, Http500, Http403Rate, Http403,
    Http400, Http401, Http404, Reverted, BadGas, InvalidArg, RpcNoFunds,
    Http500Revert, NetBadResponse, UnknownErr, NoFunds, DbTimeout, DbTerminated }

\* The words of the regular expressions of retry.ts and worker.ts that occur
\* in each message (substring search over the lower-cased message).
WordsIn(msg) ==
  CASE msg = "could not detect network" -> {"network"}
    [] msg = "timeout" -> {"timeout"}
    [] msg = "read econnreset" -> {"econnreset"}
    [] msg = "rate limit exceeded" -> {"rate"}
    [] msg = "execution reverted" -> {"revert", "execution reverted"}
    [] msg = "invalid address" -> {"invalid address"}
    [] msg = "insufficient funds for intrinsic transaction cost" -> {"insufficient funds"}
    [] msg = "bad response" -> {"bad response"}
    [] msg = "insufficient funds in faucet wallet for amount+fees" -> {"insufficient funds"}
    [] msg = "timeout exceeded when trying to connect" -> {"timeout"}
    [] OTHER -> {}

\* String.includes on the symbolic code
CodeIncludes(code, part) ==
  CASE part = "NETWORK" -> code = "NETWORK_ERROR"
    [] part = "TIMEOUT" -> code = "TIMEOUT"
    [] part = "CALL_EXCEPTION" -> code = "CALL_EXCEPTION"
    [] part = "UNPREDICTABLE_GAS_LIMIT" -> code = "UNPREDICTABLE_GAS_LIMIT"
    [] OTHER -> FALSE

NetworkWords ==
  {"econnreset", "econnrefused", "timeout", "timedout", "dns", "socket",
   "temporar", "unreachable", "network"}
ThrottleWords == {"rate", "quota", "throttle"}
FailFastWords ==
  {"revert", "execution reverted", "invalid argument", "invalid address",
   "insufficient funds", "bad response"}
PermanentWords ==
  {"revert", "execution reverted", "invalid argument", "invalid address",
   "insufficient funds"}

isRetryableError(e) ==
  \/ CodeIncludes(e.code, "NETWORK") \/ CodeIncludes(e.code, "TIMEOUT")
  \/ WordsIn(e.msg) \cap NetworkWords # {}
  \/ e.status = 429
  \/ (e.status >= 500 /\ e.status < 600)
  \/ (e.status = 403 /\ WordsIn(e.msg) \cap ThrottleWords # {})

failFast(e) ==
  \/ e.status = 400 \/ e.status = 401
  \/ CodeIncludes(e.code, "CALL_EXCEPTION")
  \/ CodeIncludes(e.code, "UNPREDICTABLE_GAS_LIMIT")
  \/ WordsIn(e.msg) \cap FailFastWords # {}

isPermanentError(e) ==
  \/ e.status = 400 \/ e.status = 401
  \/ CodeIncludes(e.code, "CALL_EXCEPTION")
  \/ CodeIncludes(e.code, "UNPREDICTABLE_GAS_LIMIT")
  \/ WordsIn(e.msg) \cap PermanentWords # {}

\* msg.includes("timeout") of the handler's inner catch
saysTimeout(e) == "timeout" \in WordsIn(e.msg)

(***************************************************************************)
(* retryRpc, retry.ts:61: the test that ends the loop by rethrowing.       *)
(***************************************************************************)
\* the mistaken test: one retry too few
RethrowsOffByOne(e, attempt, maxR) ==
  failFast(e) \/ attempt + 1 >= maxR \/ ~isRetryableError(e)

\* the test without the fail-fast clause
RethrowsWithoutFailFast(e, attempt, maxR) ==
  attempt >= maxR \/ ~isRetryableError(e)

Rethrows(e, attempt, maxR) ==
  failFast(e) \/ attempt >= maxR \/ ~isRetryableError(e)

\* Errors the chain RPC raises in the handler and the reconciler: one
\* retryable, one fail-fast and permanent, one unclassified.
RpcErrors == {NetworkErr, Http400, UnknownErr}
\* Errors of pool.query
DbErrors == {DbTimeout, DbTerminated}
\* Errors of the operation handed to retryRpc on its own
ScriptErrors == {NetworkErr, Http429, Http400, UnknownErr}
NoErr == Err(0, "", "")

VARIABLES
  \* requests table
  address,     \* [Reqs -> BOOLEAN]: the recipient passes ethers.isAddress
  status,      \* [Reqs -> {"queued","broadcast","sent","failed"}]
  tx_hash,     \* [Reqs -> Hashes \cup {NULL}]
  \* queue
  pending,     \* [Reqs -> BOOLEAN]: the job is in the wait list
  \* chain
  chain,       \* sequence of accepted transfers [req, outcome]; the hash is the index
  \* Redis
  nonceLock,   \* 0: key absent; p: key present, set by invocation p's SET NX
  recLock,     \* 0: key absent; t: key present with token t
  \* handler invocations
  pc, job, tx, gasLimit, maxFeePerGas, bal, err, attempt, exit,
  \* reconciler cycles
  rpc, rtoken, loops, rows, full, rcpt,
  \* retryRpc run alone
  rr,
  \* history
  lease,       \* [Procs -> BOOLEAN]: p's SET NX succeeded, p has not deleted
               \* the key since and the TTL of that SET has not run out
  everBroadcast, \* [Reqs -> BOOLEAN]: the row has stood at broadcast
  checkpoint   \* [Procs -> Hashes \cup {NULL}]: the hash invocation p's
               \* checkpoint write left in the row together with broadcast

tableVars == <<address, status, tx_hash>>
queueVars == <<pending>>
procVars == <<pc, job, tx, gasLimit, maxFeePerGas, bal, err, attempt, exit>>
recVars == <<rpc, rtoken, loops, rows, full, rcpt>>
histVars == <<lease, everBroadcast, checkpoint>>
vars == <<address, status, tx_hash, pending, chain, nonceLock, recLock,
          pc, job, tx, gasLimit, maxFeePerGas, bal, err, attempt, exit, rpc, rtoken, loops, rows, full, rcpt, rr,
          lease, everBroadcast, checkpoint>>

rrIdle == [pc |-> "off", maxRetries |-> 0, script |-> <<>>, attempt |-> 0,
           calls |-> 0, sleeps |-> 0, thrown |-> NoErr]

InitSystem ==
  /\ address \in [Reqs -> BOOLEAN]
  /\ \A r \in Reqs : r < NumRequests => address[r]
  /\ status = [r \in Reqs |-> "queued"]
  /\ tx_hash = [r \in Reqs |-> NULL]
  /\ pending = [r \in Reqs |-> TRUE]
  /\ chain = <<>>
  /\ nonceLock = 0
  /\ recLock = 0
  /\ pc = [p \in Procs |-> "idle"]
  /\ job = [p \in Procs |-> 0]
  /\ tx = [p \in Procs |-> NULL]
  /\ gasLimit = [p \in Procs |-> 0]
  /\ maxFeePerGas = [p \in Procs |-> 0]
  /\ bal = [p \in Procs |-> 0]
  /\ err = [p \in Procs |-> NoErr]
  /\ attempt = [p \in Procs |-> 0]
  /\ exit = [p \in Procs |-> "none"]
  /\ rpc = [k \in Cycles |-> "idle"]
  /\ rtoken = [k \in Cycles |-> 0]
  /\ loops = [k \in Cycles |-> 0]
  /\ rows = [k \in Cycles |-> <<>>]
  /\ full = [k \in Cycles |-> FALSE]
  /\ rcpt = [k \in Cycles |-> "none"]
  /\ lease = [p \in Procs |-> FALSE]
  /\ everBroadcast = [r \in Reqs |-> FALSE]
  /\ checkpoint = [p \in Procs |-> NULL]

Init == InitSystem /\ rr = rrIdle

(***************************************************************************)
(* The queue (BullMQ) delivers at least once: a waiting job is handed to a *)
(* free handler slot; a job whose handler throws, whose worker dies or     *)
(* which the queue finds stalled goes back to the wait list (the attempt   *)
(* budget is the enqueuer's choice and is left open). A handler that       *)
(* returns acknowledges its delivery.                                      *)
(***************************************************************************)
Requeue(r) == pending' = [pending EXCEPT ![r] = TRUE]

\* the handler invocation p ends: it returns (how = "return") or it throws
Finish(p, how) ==
  /\ IF how = "return" THEN UNCHANGED pending ELSE Requeue(job[p])
  /\ pc' = [pc EXCEPT ![p] = "idle"]
  /\ job' = [job EXCEPT ![p] = 0]
  /\ tx' = [tx EXCEPT ![p] = NULL]
  /\ gasLimit' = [gasLimit EXCEPT ![p] = 0]
  /\ maxFeePerGas' = [maxFeePerGas EXCEPT ![p] = 0]
  /\ bal' = [bal EXCEPT ![p] = 0]
  /\ err' = [err EXCEPT ![p] = NoErr]
  /\ attempt' = [attempt EXCEPT ![p] = 0]
  /\ exit' = [exit EXCEPT ![p] = "none"]
  /\ checkpoint' = [checkpoint EXCEPT ![p] = NULL]

\* worker.ts:94-98: the handler starts on job r
Deliver(p, r) ==
  /\ pc[p] = "idle"
  /\ pending[r]
  /\ pending' = [pending EXCEPT ![r] = FALSE]
  /\ job' = [job EXCEPT ![p] = r]
  /\ pc' = [pc EXCEPT ![p] = IF address[r] THEN "acquire" ELSE "invalid"]
  /\ UNCHANGED <<tableVars, chain, nonceLock, recLock, tx, gasLimit, maxFeePerGas, bal, err, attempt, exit,
                 recVars, rr, histVars>>

\* the queue takes a running job for stalled and puts it back on the wait list
Stalled(r) ==
  /\ \E p \in Procs : job[p] = r
  /\ ~pending[r]
  /\ Requeue(r)
  /\ UNCHANGED <<tableVars, chain, nonceLock, recLock, procVars, recVars, rr,
                 histVars>>

\* worker.ts:99-100: UPDATE ... status='failed', reason='invalid recipient address'
InvalidAddress(p) ==
  /\ pc[p] = "invalid"
  /\ \/ /\ status' = [status EXCEPT ![job[p]] = "failed"]
        /\ Finish(p, "return")
     \/ /\ Finish(p, "throw")          \* the query rejects
        /\ UNCHANGED status
  /\ UNCHANGED <<address, tx_hash, chain, nonceLock, recLock, recVars, rr, lease,
                 everBroadcast>>

\* the acquisition made inside the try block: giving up runs the release
AcquireLockWithBackoffInsideTry(p) ==
  /\ pc[p] = "acquire"
  /\ IF nonceLock = 0
       THEN /\ nonceLock' = p
            /\ lease' = [lease EXCEPT ![p] = TRUE]
            /\ pc' = [pc EXCEPT ![p] = "estimate"]
            /\ attempt' = [attempt EXCEPT ![p] = 0]
            /\ UNCHANGED <<queueVars, job, tx, gasLimit, maxFeePerGas, bal, err, exit, checkpoint>>
       ELSE IF attempt[p] + 1 < maxAttempts
         THEN /\ attempt' = [attempt EXCEPT ![p] = @ + 1]
              /\ UNCHANGED <<queueVars, nonceLock, lease, pc, job, tx, gasLimit, maxFeePerGas, bal, err, exit,
                             checkpoint>>
         ELSE /\ Finish(p, "throw")
              /\ nonceLock' = 0
              /\ lease' = [q \in Procs |-> FALSE]
  /\ UNCHANGED <<tableVars, chain, recLock, recVars, rr, everBroadcast>>

\* worker.ts:35-48, 103-105: one pass of the loop of acquireLockWithBackoff
AcquireLockWithBackoff(p) ==
  /\ pc[p] = "acquire"
  /\ IF nonceLock = 0
       THEN /\ nonceLock' = p
            /\ lease' = [lease EXCEPT ![p] = TRUE]
            /\ pc' = [pc EXCEPT ![p] = "estimate"]
            /\ attempt' = [attempt EXCEPT ![p] = 0]
            /\ UNCHANGED <<queueVars, job, tx, gasLimit, maxFeePerGas, bal, err, exit, checkpoint>>
       ELSE IF attempt[p] + 1 < maxAttempts
         THEN /\ attempt' = [attempt EXCEPT ![p] = @ + 1]
              /\ UNCHANGED <<queueVars, nonceLock, lease, pc, job, tx, gasLimit, maxFeePerGas, bal, err, exit,
                             checkpoint>>
         ELSE /\ Finish(p, "throw")
              /\ UNCHANGED <<nonceLock, lease>>
  /\ UNCHANGED <<tableVars, chain, recLock, recVars, rr, everBroadcast>>

\* what stays as it is when a handler step touches only its own locals
HandlerFrame ==
  UNCHANGED <<tableVars, queueVars, chain, nonceLock, recLock, job, recVars, rr, lease,
              everBroadcast>>

\* an error reaches the catch-all; tx and the loop counter are out of scope
Throw(p, e) ==
  /\ err' = [err EXCEPT ![p] = e]
  /\ pc' = [pc EXCEPT ![p] = "catch"]
  /\ attempt' = [attempt EXCEPT ![p] = 0]
  /\ tx' = [tx EXCEPT ![p] = NULL]
  /\ gasLimit' = [gasLimit EXCEPT ![p] = 0]
  /\ maxFeePerGas' = [maxFeePerGas EXCEPT ![p] = 0]
  /\ bal' = [bal EXCEPT ![p] = 0]
  /\ checkpoint' = [checkpoint EXCEPT ![p] = NULL]

\* worker.ts:54-58: bumpBig, with the multiplier in hundredths
bumpBig(x, mult) == (x * mult) \div 100

\* what getFeeData quotes, and the balances getBalance reads: one short of
\* the cost at the estimated gas limit, that cost, and the cost at the
\* fallback gas limit
FeeQuotes == {MaxFee}
Balances ==
  {amountWei + bumpBig(MaxFee, MAX_FEE_BUMP_MULT) * GasEstimate - 1,
   amountWei + bumpBig(MaxFee, MAX_FEE_BUMP_MULT) * GasEstimate,
   amountWei + bumpBig(MaxFee, MAX_FEE_BUMP_MULT) * FALLBACK_GAS_LIMIT}

\* the estimate with no try/catch of its own: its error ends the attempt
EstimateGasAborts(p) ==
  /\ pc[p] = "estimate"
  /\ \/ /\ gasLimit' = [gasLimit EXCEPT ![p] = GasEstimate]
        /\ pc' = [pc EXCEPT ![p] = "fee"]
        /\ UNCHANGED <<err, attempt, tx, maxFeePerGas, bal, checkpoint>>
     \/ \E e \in RpcErrors : Throw(p, e)
  /\ UNCHANGED exit
  /\ HandlerFrame

\* worker.ts:110-114: estimateGas under retryRpc inside its own try/catch;
\* whatever error retryRpc ends with (e) is caught and FALLBACK_GAS_LIMIT
\* is taken instead
EstimateGas(p) ==
  /\ pc[p] = "estimate"
  /\ \/ gasLimit' = [gasLimit EXCEPT ![p] = GasEstimate]
     \/ \E e \in RpcErrors : gasLimit' = [gasLimit EXCEPT ![p] = FALLBACK_GAS_LIMIT]
  /\ pc' = [pc EXCEPT ![p] = "fee"]
  /\ UNCHANGED <<err, attempt, exit, tx, maxFeePerGas, bal, checkpoint>>
  /\ HandlerFrame

\* worker.ts:59-69, 117: getFeeSuggestion; q is the node's maxFeePerGas (or
\* gasPrice + maxPrio), an error of getFeeData goes to the catch-all
GetFeeSuggestion(p) ==
  /\ pc[p] = "fee"
  /\ \/ \E q \in FeeQuotes :
          /\ maxFeePerGas' = [maxFeePerGas EXCEPT ![p] = bumpBig(q, MAX_FEE_BUMP_MULT)]
          /\ pc' = [pc EXCEPT ![p] = "balance"]
          /\ UNCHANGED <<err, attempt, tx, gasLimit, bal, checkpoint>>
     \/ \E e \in RpcErrors : Throw(p, e)
  /\ UNCHANGED exit
  /\ HandlerFrame

\* worker.ts:118-119: const feeCost = effectiveFeePerGas * gasLimit
feeCost(p) == maxFeePerGas[p] * gasLimit[p]

\* worker.ts:71: const bal = await retryRpc(() => provider.getBalance(sender))
GetBalance(p) ==
  /\ pc[p] = "balance"
  /\ \/ \E b \in Balances :
          /\ bal' = [bal EXCEPT ![p] = b]
          /\ pc' = [pc EXCEPT ![p] = "covers"]
          /\ UNCHANGED <<err, attempt, tx, gasLimit, maxFeePerGas, checkpoint>>
     \/ \E e \in RpcErrors : Throw(p, e)
  /\ UNCHANGED exit
  /\ HandlerFrame

\* the guard that leaves the fee out of what the balance must cover
EnsureBalanceCoversAmountOnly(p) ==
  /\ pc[p] = "covers"
  /\ IF bal[p] < amountWei
       THEN Throw(p, NoFunds)
       ELSE /\ pc' = [pc EXCEPT ![p] = "send"]
            /\ bal' = [bal EXCEPT ![p] = 0]
            /\ UNCHANGED <<err, attempt, tx, gasLimit, maxFeePerGas, checkpoint>>
  /\ UNCHANGED exit
  /\ HandlerFrame

\* worker.ts:72: if (bal < amountWei + feeWei) throw new Error("insufficient
\* funds ..."); the next statement is the submission
EnsureBalanceCovers(p) ==
  /\ pc[p] = "covers"
  /\ IF bal[p] < amountWei + feeCost(p)
       THEN Throw(p, NoFunds)
       ELSE /\ pc' = [pc EXCEPT ![p] = "send"]
            /\ bal' = [bal EXCEPT ![p] = 0]
            /\ UNCHANGED <<err, attempt, tx, gasLimit, maxFeePerGas, checkpoint>>
  /\ UNCHANGED exit
  /\ HandlerFrame

\* a transfer of request r enters the chain; its hash is its position
Accept(r) == chain' = Append(chain, [req |-> r, outcome |-> "pending"])

\* worker.ts:123-130: one call of sendTransaction inside retryRpc. The node
\* may have taken the transfer although the call failed (the reply was lost);
\* the next call signs a new transfer with the next pending nonce.
SendTransaction(p) ==
  /\ pc[p] = "send"
  /\ \/ /\ Len(chain) < MaxTx
        /\ Accept(job[p])
        /\ tx' = [tx EXCEPT ![p] = Len(chain) + 1]
        /\ pc' = [pc EXCEPT ![p] = "writeB"]
        /\ attempt' = [attempt EXCEPT ![p] = 0]
        /\ gasLimit' = [gasLimit EXCEPT ![p] = 0]          \* not read again
        /\ maxFeePerGas' = [maxFeePerGas EXCEPT ![p] = 0]
        /\ UNCHANGED <<err, bal, checkpoint>>
     \/ \E e \in RpcErrors, taken \in BOOLEAN :
        /\ taken => (e = NetworkErr /\ Len(chain) < MaxTx)
        /\ IF taken THEN Accept(job[p]) ELSE UNCHANGED chain
        /\ IF Rethrows(e, attempt[p], maxRetries)
             THEN Throw(p, e)
             ELSE /\ attempt' = [attempt EXCEPT ![p] = @ + 1]
                  /\ UNCHANGED <<pc, err, tx, gasLimit, maxFeePerGas, bal, checkpoint>>
  /\ UNCHANGED <<tableVars, queueVars, nonceLock, recLock, job, exit, recVars, rr,
                 lease, everBroadcast>>

\* worker.ts:133: UPDATE requests SET status='broadcast', tx_hash=$1 WHERE id=$2
MarkBroadcastHashOnly(r, h) ==
  /\ tx_hash' = [tx_hash EXCEPT ![r] = h]
  /\ UNCHANGED status

MarkBroadcast(r, h) ==
  /\ status' = [status EXCEPT ![r] = "broadcast"]
  /\ tx_hash' = [tx_hash EXCEPT ![r] = h]

\* worker.ts:138: UPDATE requests SET status='sent' WHERE id=$1 AND tx_hash=$2
MarkSent(r, h) ==
  /\ status' = [status EXCEPT ![r] = IF tx_hash[r] = h THEN "sent" ELSE @]
  /\ UNCHANGED tx_hash

\* worker.ts:151 and reconciler: UPDATE requests SET status='failed', reason=$1 WHERE id=$2
MarkFailed(r) ==
  /\ status' = [status EXCEPT ![r] = "failed"]
  /\ UNCHANGED tx_hash

\* history: the row has stood at broadcast; the hash p's write left with it
Record(p) ==
  /\ everBroadcast' = [r \in Reqs |-> everBroadcast[r] \/ status'[r] = "broadcast"]
  /\ checkpoint' = [checkpoint EXCEPT ![p] =
                      IF status'[job[p]] = "broadcast" /\ tx_hash'[job[p]] = tx[p]
                        THEN tx[p] ELSE NULL]

\* the checkpoint with its rejection not awaited: the wait starts all the same
WriteBroadcastUnawaited(p) ==
  /\ pc[p] = "writeB"
  /\ \/ MarkBroadcast(job[p], tx[p])
     \/ UNCHANGED <<status, tx_hash>>
  /\ pc' = [pc EXCEPT ![p] = "wait"]
  /\ Record(p)
  /\ UNCHANGED <<address, queueVars, chain, nonceLock, recLock, job, tx, gasLimit, maxFeePerGas, bal, err, attempt,
                 exit, recVars, rr, lease>>

\* worker.ts:132-133: the durable checkpoint
WriteBroadcast(p) ==
  /\ pc[p] = "writeB"
  /\ \/ /\ MarkBroadcast(job[p], tx[p])
        /\ pc' = [pc EXCEPT ![p] = "wait"]
        /\ Record(p)
        /\ UNCHANGED <<err, attempt, tx, gasLimit, maxFeePerGas, bal>>
     \/ /\ \E e \in DbErrors : Throw(p, e)
        /\ UNCHANGED <<status, tx_hash, everBroadcast>>
  /\ UNCHANGED <<address, queueVars, chain, nonceLock, recLock, job, exit,
                 recVars, rr, lease>>

\* the handler leaves the try block: the finally clause is next
Leave(p, how) ==
  /\ pc' = [pc EXCEPT ![p] = "release"]
  /\ exit' = [exit EXCEPT ![p] = how]
  /\ attempt' = [attempt EXCEPT ![p] = 0]
  /\ tx' = [tx EXCEPT ![p] = NULL]
  /\ gasLimit' = [gasLimit EXCEPT ![p] = 0]
  /\ maxFeePerGas' = [maxFeePerGas EXCEPT ![p] = 0]
  /\ bal' = [bal EXCEPT ![p] = 0]
  /\ err' = [err EXCEPT ![p] = NoErr]
  /\ checkpoint' = [checkpoint EXCEPT ![p] = NULL]

\* the wait whose timeout is written to the row as a failure
WaitForTransactionFailsOnTimeout(p) ==
  /\ pc[p] = "wait"
  /\ \/ /\ chain[tx[p]].outcome # "pending"
        /\ pc' = [pc EXCEPT ![p] = "writeSent"]
        /\ attempt' = [attempt EXCEPT ![p] = 0]
        /\ err' = [err EXCEPT ![p] = NoErr]
        /\ UNCHANGED <<exit, tx, gasLimit, maxFeePerGas, bal, checkpoint, status, tx_hash>>
     \/ \E e \in RpcErrors \cup {WaitTimeout} :
          IF Rethrows(e, attempt[p], maxRetries)
            THEN IF saysTimeout(e)
                   THEN MarkFailed(job[p]) /\ Leave(p, "return")
                   ELSE Throw(p, e) /\ UNCHANGED <<exit, status, tx_hash>>
            ELSE /\ attempt' = [attempt EXCEPT ![p] = @ + 1]
                 /\ err' = [err EXCEPT ![p] = e]
                 /\ UNCHANGED <<pc, exit, tx, gasLimit, maxFeePerGas, bal, checkpoint, status, tx_hash>>
  /\ UNCHANGED <<address, queueVars, chain, nonceLock, recLock, job, recVars, rr, lease,
                 everBroadcast>>

\* worker.ts:136-148: one call of waitForTransaction inside retryRpc, and the
\* inner catch once retryRpc has thrown; while retryRpc goes round, err is
\* the error its catch holds
WaitForTransaction(p) ==
  /\ pc[p] = "wait"
  /\ \/ /\ chain[tx[p]].outcome # "pending"
        /\ pc' = [pc EXCEPT ![p] = "writeSent"]
        /\ attempt' = [attempt EXCEPT ![p] = 0]
        /\ err' = [err EXCEPT ![p] = NoErr]
        /\ UNCHANGED <<exit, tx, gasLimit, maxFeePerGas, bal, checkpoint>>
     \/ \E e \in RpcErrors \cup {WaitTimeout} :
          IF Rethrows(e, attempt[p], maxRetries)
            THEN IF saysTimeout(e)
                   THEN Leave(p, "return")
                   ELSE Throw(p, e) /\ UNCHANGED exit
            ELSE /\ attempt' = [attempt EXCEPT ![p] = @ + 1]
                 /\ err' = [err EXCEPT ![p] = e]     \* retry.ts:53: catch (err)
                 /\ UNCHANGED <<pc, exit, tx, gasLimit, maxFeePerGas, bal, checkpoint>>
  /\ HandlerFrame

\* worker.ts:138-148: the guarded update to sent
WriteSent(p) ==
  /\ pc[p] = "writeSent"
  /\ \/ /\ MarkSent(job[p], tx[p])
        /\ Leave(p, "return")
     \/ /\ \E e \in DbErrors :
             IF saysTimeout(e)
               THEN Leave(p, "return")
               ELSE Throw(p, e) /\ UNCHANGED exit
        /\ UNCHANGED <<status, tx_hash>>
  /\ UNCHANGED <<address, queueVars, chain, nonceLock, recLock, job, recVars, rr,
                 lease, everBroadcast>>

\* the rethrow made without classifying the error
DispositionAlwaysThrow(e) == "throw"

\* worker.ts:153-156: return or rethrow after the failed write
Disposition(e) ==
  IF isPermanentError(e) \/ ~isRetryableError(e) THEN "return" ELSE "throw"

\* the catch-all whose rejected write leaves the handler past the finally
CatchAllOutsideFinally(p) ==
  /\ pc[p] = "catch"
  /\ \/ /\ MarkFailed(job[p])
        /\ Leave(p, Disposition(err[p]))
        /\ UNCHANGED <<queueVars, job>>
     \/ /\ Finish(p, "throwDb")
        /\ UNCHANGED <<status, tx_hash>>
  /\ UNCHANGED <<address, chain, nonceLock, recLock, recVars, rr, lease,
                 everBroadcast>>

\* worker.ts:149-156: the catch-all
CatchAll(p) ==
  /\ pc[p] = "catch"
  /\ \/ /\ MarkFailed(job[p])
        /\ Leave(p, Disposition(err[p]))
     \/ /\ Leave(p, "throwDb")         \* the query rejects: its error is thrown
        /\ UNCHANGED <<status, tx_hash>>
  /\ UNCHANGED <<address, queueVars, chain, nonceLock, recLock, job, recVars,
                 rr, lease, everBroadcast>>

\* worker.ts:49, 157-159: redis.del(key); an error of del is swallowed
ReleaseLock(p) ==
  /\ pc[p] = "release"
  /\ \/ /\ nonceLock' = 0
        /\ lease' = [lease EXCEPT ![p] = FALSE]
     \/ UNCHANGED <<nonceLock, lease>>
  /\ Finish(p, exit[p])
  /\ UNCHANGED <<tableVars, chain, recLock, recVars, rr, everBroadcast>>

\* the worker process dies under invocation p; the queue finds the job stalled
Crash(p) ==
  /\ pc[p] # "idle"
  /\ Finish(p, "throw")
  /\ UNCHANGED <<tableVars, chain, nonceLock, recLock, recVars, rr, lease,
                 everBroadcast>>

\* the key of p set without EX: it never runs out
SignerTtlNeverExpires(p) ==
  /\ lease[p]
  /\ UNCHANGED vars

\* worker.ts:36: the EX 15 of p's SET runs out
SignerTtlExpires(p) ==
  /\ lease[p]
  /\ lease' = [lease EXCEPT ![p] = FALSE]
  /\ nonceLock' = IF nonceLock = p THEN 0 ELSE nonceLock
  /\ UNCHANGED <<tableVars, queueVars, chain, recLock, procVars, recVars, rr,
                 everBroadcast, checkpoint>>

\* the chain includes transfer h, with either outcome
Mine(h) ==
  /\ h \in 1..Len(chain)
  /\ chain[h].outcome = "pending"
  /\ \E o \in {"success", "reverted"} : chain' = [chain EXCEPT ![h].outcome = o]
  /\ UNCHANGED <<tableVars, queueVars, nonceLock, recLock, procVars, recVars, rr,
                 histVars>>

(***************************************************************************)
(* The reconciler: reconcileBroadcastsWithLock and reconcileBroadcastsOnce *)
(***************************************************************************)
\* randHex(8): a token no lock and no running cycle holds
FreshToken == CHOOSE t \in DOMAIN rtoken : \A k \in DOMAIN rtoken : rtoken[k] # t

RecFrame == UNCHANGED <<queueVars, chain, nonceLock, procVars, rr, histVars>>

\* tryAcquireLock and the skip branch of reconcileBroadcastsWithLock
TryAcquireLock(k) ==
  /\ rpc[k] = "idle"
  /\ IF recLock = 0
       THEN /\ recLock' = FreshToken
            /\ rtoken' = [rtoken EXCEPT ![k] = FreshToken]
            /\ rpc' = [rpc EXCEPT ![k] = "fetch"]
       ELSE /\ rpc' = [rpc EXCEPT ![k] = "skipped"]
            /\ UNCHANGED <<recLock, rtoken>>
  /\ UNCHANGED <<tableVars, loops, rows, full, rcpt>>
  /\ RecFrame

\* redis.incrby("reconciler:skips", 1); return
Skip(k) ==
  /\ rpc[k] = "skipped"
  /\ rpc' = [rpc EXCEPT ![k] = "idle"]
  /\ UNCHANGED <<tableVars, recLock, rtoken, loops, rows, full, rcpt>>
  /\ RecFrame

\* SELECT id, tx_hash FROM requests WHERE status='broadcast'
\*   ORDER BY created_at ASC LIMIT n   (rows are created in the order of their ids)
RECURSIVE Page(_, _)
Page(from, n) ==
  IF n = 0 \/ from \notin DOMAIN status THEN <<>>
  ELSE IF status[from] = "broadcast"
         THEN <<[id |-> from, tx_hash |-> tx_hash[from]]>> \o Page(from + 1, n - 1)
         ELSE Page(from + 1, n)

SelectBroadcast(n) == Page(1, n)

\* the loop test and the SELECT of one pass of the while loop
Fetch(k) ==
  /\ rpc[k] = "fetch"
  /\ IF loops[k] < MAX_LOOPS
       THEN \/ /\ loops' = [loops EXCEPT ![k] = @ + 1]
               /\ rows' = [rows EXCEPT ![k] = SelectBroadcast(BATCH)]
               /\ full' = [full EXCEPT ![k] = Len(SelectBroadcast(BATCH)) = BATCH]
               /\ rpc' = [rpc EXCEPT ![k] =
                            IF SelectBroadcast(BATCH) = <<>> THEN "release" ELSE "row"]
            \/ /\ loops' = [loops EXCEPT ![k] = @ + 1]      \* the query rejects
               /\ rpc' = [rpc EXCEPT ![k] = "release"]
               /\ UNCHANGED <<rows, full>>
       ELSE /\ loops' = [loops EXCEPT ![k] = @ + 1]
            /\ rpc' = [rpc EXCEPT ![k] = "release"]
            /\ UNCHANGED <<rows, full>>
  /\ UNCHANGED <<tableVars, recLock, rtoken, rcpt>>
  /\ RecFrame

\* the batch is done and the loop goes round whatever the batch's size
NextRowAnySize(k) ==
  /\ rows' = [rows EXCEPT ![k] = Tail(@)]
  /\ rcpt' = [rcpt EXCEPT ![k] = "none"]
  /\ rpc' = [rpc EXCEPT ![k] = IF Len(rows[k]) > 1 THEN "row" ELSE "fetch"]

\* the for loop moves to the next row, or the batch is done
NextRow(k) ==
  /\ rows' = [rows EXCEPT ![k] = Tail(@)]
  /\ rcpt' = [rcpt EXCEPT ![k] = "none"]
  /\ rpc' = [rpc EXCEPT ![k] =
               IF Len(rows[k]) > 1 THEN "row" ELSE IF full[k] THEN "fetch" ELSE "release"]

\* provider.getTransactionReceipt(h): null while pending, else the receipt status
Receipt(h) == chain[h].outcome

\* one row of the batch: the missing-hash branch, or the receipt lookup
Row(k) ==
  /\ rpc[k] = "row"
  /\ LET r == Head(rows[k]) IN
       IF r.tx_hash = NULL
         THEN \/ MarkFailed(r.id) /\ NextRow(k)
              \/ /\ rpc' = [rpc EXCEPT ![k] = "release"]     \* the query rejects
                 /\ UNCHANGED <<status, tx_hash, rows, rcpt>>
         ELSE /\ \/ /\ Receipt(r.tx_hash) \in {"success", "reverted"}
                    /\ rcpt' = [rcpt EXCEPT ![k] = Receipt(r.tx_hash)]
                    /\ rpc' = [rpc EXCEPT ![k] = "write"]
                    /\ UNCHANGED rows
                 \/ /\ Receipt(r.tx_hash) = "pending"
                    /\ NextRow(k)
                 \/ NextRow(k)      \* retryRpc throws, or a status neither 1 nor 0
              /\ UNCHANGED <<status, tx_hash>>
  /\ UNCHANGED <<address, recLock, rtoken, loops, full>>
  /\ RecFrame

\* UPDATE requests SET status='sent' WHERE id=$1
RecMarkSent(r) ==
  /\ status' = [status EXCEPT ![r] = "sent"]
  /\ UNCHANGED tx_hash

\* the update made without looking at the receipt's status
WriteAnyReceipt(k) ==
  /\ rpc[k] = "write"
  /\ LET r == Head(rows[k]) IN
       \/ RecMarkSent(r.id)
       \/ UNCHANGED <<status, tx_hash>>
  /\ NextRow(k)
  /\ UNCHANGED <<address, recLock, rtoken, loops, full>>
  /\ RecFrame

\* the update that follows the receipt; a rejected query is logged
Write(k) ==
  /\ rpc[k] = "write"
  /\ LET r == Head(rows[k]) IN
       \/ IF rcpt[k] = "success" THEN RecMarkSent(r.id) ELSE MarkFailed(r.id)
       \/ UNCHANGED <<status, tx_hash>>
  /\ NextRow(k)
  /\ UNCHANGED <<address, recLock, rtoken, loops, full>>
  /\ RecFrame

RecReset(k) ==
  /\ rpc' = [rpc EXCEPT ![k] = "idle"]
  /\ rtoken' = [rtoken EXCEPT ![k] = 0]
  /\ loops' = [loops EXCEPT ![k] = 0]
  /\ rows' = [rows EXCEPT ![k] = <<>>]
  /\ full' = [full EXCEPT ![k] = FALSE]
  /\ rcpt' = [rcpt EXCEPT ![k] = "none"]

\* UNLOCK_LUA: delete the key if it holds the token; an error of eval is swallowed
RecReleaseLock(k) ==
  /\ rpc[k] = "release"
  /\ \/ recLock' = IF recLock = rtoken[k] THEN 0 ELSE recLock
     \/ UNCHANGED recLock
  /\ RecReset(k)
  /\ UNCHANGED tableVars
  /\ RecFrame

\* the PX of the reconciler lock runs out
RecTtlExpires ==
  /\ recLock # 0
  /\ recLock' = 0
  /\ UNCHANGED <<tableVars, recVars>>
  /\ RecFrame

\* the process dies during cycle k
RecCrash(k) ==
  /\ rpc[k] # "idle"
  /\ RecReset(k)
  /\ UNCHANGED <<tableVars, recLock>>
  /\ RecFrame

(***************************************************************************)
(* The reconciler on its own: cycles started by the timers of the worker   *)
(* processes sweep a table as its writers may have left it. A row holds    *)
(* the hash of its own transfer or none; the outcomes do not change.       *)
(* ReconcileSpec runs one cycle after another; OverlapSpec lets the timers *)
(* of NumSweepers processes start cycles beside each other.                *)
(***************************************************************************)
Rows == 1..NumRows
Sweepers == 1..NumSweepers
\* the one cycle in progress when cycles follow each other
Single == {1}

RowStates ==
  { [status |-> "queued", hashed |-> FALSE, outcome |-> "pending"],
    [status |-> "broadcast", hashed |-> FALSE, outcome |-> "pending"],
    [status |-> "sent", hashed |-> TRUE, outcome |-> "success"],
    [status |-> "failed", hashed |-> TRUE, outcome |-> "reverted"] }
  \cup { [status |-> "broadcast", hashed |-> TRUE, outcome |-> o] :
           o \in {"pending", "success", "reverted", "other"} }

\* rows the overlap of two cycles is observed on
OverlapRowStates ==
  { [status |-> "queued", hashed |-> FALSE, outcome |-> "pending"],
    [status |-> "broadcast", hashed |-> TRUE, outcome |-> "pending"],
    [status |-> "broadcast", hashed |-> TRUE, outcome |-> "success"] }

ReconcileInitOn(sweepers, kinds) ==
  /\ \E t \in [Rows -> kinds] :
       /\ status = [r \in Rows |-> t[r].status]
       /\ tx_hash = [r \in Rows |-> IF t[r].hashed THEN r ELSE NULL]
       /\ chain = [r \in Rows |-> [req |-> r, outcome |-> t[r].outcome]]
       /\ everBroadcast = [r \in Rows |-> t[r].status = "broadcast"]
  /\ address = [r \in Rows |-> TRUE]
  /\ pending = [r \in Rows |-> FALSE]
  /\ nonceLock = 0
  /\ recLock = 0
  /\ pc = [p \in Procs |-> "idle"]
  /\ job = [p \in Procs |-> 0]
  /\ tx = [p \in Procs |-> NULL]
  /\ gasLimit = [p \in Procs |-> 0]
  /\ maxFeePerGas = [p \in Procs |-> 0]
  /\ bal = [p \in Procs |-> 0]
  /\ err = [p \in Procs |-> NoErr]
  /\ attempt = [p \in Procs |-> 0]
  /\ exit = [p \in Procs |-> "none"]
  /\ rpc = [k \in sweepers |-> "idle"]
  /\ rtoken = [k \in sweepers |-> 0]
  /\ loops = [k \in sweepers |-> 0]
  /\ rows = [k \in sweepers |-> <<>>]
  /\ full = [k \in sweepers |-> FALSE]
  /\ rcpt = [k \in sweepers |-> "none"]
  /\ lease = [p \in Procs |-> FALSE]
  /\ checkpoint = [p \in Procs |-> NULL]
  /\ rr = rrIdle

(***************************************************************************)
(* retryRpc on its own (retry.ts:40-70): the operation fails with the      *)
(* errors of rr.script, one per call, and succeeds once they are used up.  *)
(***************************************************************************)
Scripts == UNION {[1..n -> ScriptErrors] : n \in 0..MaxScript}

RetryInit ==
  /\ InitSystem
  /\ \E m \in 0..MaxMaxRetries, s \in Scripts :
       rr = [rrIdle EXCEPT !.pc = "call", !.maxRetries = m, !.script = s]

\* retry.ts:49-61: return await fn(), or the catch clause up to the throw
RetryCall ==
  /\ rr.pc = "call"
  /\ IF rr.calls + 1 > Len(rr.script)
       THEN rr' = [rr EXCEPT !.calls = @ + 1, !.pc = "returned"]
       ELSE IF Rethrows(rr.script[rr.calls + 1], rr.attempt, rr.maxRetries)
              THEN rr' = [rr EXCEPT !.calls = @ + 1, !.pc = "thrown",
                                    !.thrown = rr.script[rr.calls + 1]]
              ELSE rr' = [rr EXCEPT !.calls = @ + 1, !.pc = "sleep"]
  /\ UNCHANGED <<tableVars, queueVars, chain, nonceLock, recLock, procVars, recVars,
                 histVars>>

\* retry.ts:63-67: await sleep(delay); attempt++
RetrySleep ==
  /\ rr.pc = "sleep"
  /\ rr' = [rr EXCEPT !.sleeps = @ + 1, !.attempt = @ + 1, !.pc = "call"]
  /\ UNCHANGED <<tableVars, queueVars, chain, nonceLock, recLock, procVars, recVars,
                 histVars>>

RetryNext == RetryCall \/ RetrySleep

RetrySpec == RetryInit /\ [][RetryNext]_vars

(***************************************************************************)
(* retryRpc on one failure of every shape: each status, symbolic code and  *)
(* message that retry.ts tells apart, in every combination.                *)
(***************************************************************************)
Statuses == {0, 400, 401, 403, 404, 429, 500}
Codes == {"", "NETWORK_ERROR", "TIMEOUT", "CALL_EXCEPTION", "UNPREDICTABLE_GAS_LIMIT",
          "INVALID_ARGUMENT", "INSUFFICIENT_FUNDS"}
Messages == {e.msg : e \in AllErrors}
ErrorSpace == {Err(st, c, m) : st \in Statuses, c \in Codes, m \in Messages}

ClassifyInit ==
  /\ InitSystem
  /\ \E m \in 0..MaxMaxRetries, e \in ErrorSpace :
       rr = [rrIdle EXCEPT !.pc = "call", !.maxRetries = m, !.script = <<e>>]

ClassifySpec == ClassifyInit /\ [][RetryNext]_vars

(***************************************************************************)
(* The system. Spec: the queue hands a job out again only after its        *)
(* handler threw or its worker died, and the reconciler runs beside the    *)
(* handlers. DuplicateSpec: the queue also hands out a job it takes for    *)
(* stalled while the first handler still runs; the reconciler, which       *)
(* touches neither the nonce lock nor a handler, is left out.              *)
(***************************************************************************)
Handler(p) ==
  \/ InvalidAddress(p)
  \/ AcquireLockWithBackoff(p)
  \/ EstimateGas(p)
  \/ GetFeeSuggestion(p)
  \/ GetBalance(p)
  \/ EnsureBalanceCovers(p)
  \/ SendTransaction(p)
  \/ WriteBroadcast(p)
  \/ WaitForTransaction(p)
  \/ WriteSent(p)
  \/ CatchAll(p)
  \/ ReleaseLock(p)

Reconciler(k) ==
  \/ TryAcquireLock(k)
  \/ Skip(k)
  \/ Fetch(k)
  \/ Row(k)
  \/ Write(k)
  \/ RecReleaseLock(k)

Next ==
  \/ \E p \in Procs, r \in Reqs : Deliver(p, r)
  \/ \E p \in Procs : Handler(p)
  \/ \E p \in Procs : Crash(p)
  \/ \E p \in Procs : SignerTtlExpires(p)
  \/ \E h \in Hashes : Mine(h)
  \/ \E k \in Cycles : Reconciler(k)
  \/ \E k \in Cycles : RecCrash(k)
  \/ RecTtlExpires

Spec == Init /\ [][Next]_vars

\* the system while no process dies: every handler and every cycle runs to
\* its own end
OrderlyNext ==
  \/ \E p \in Procs, r \in Reqs : Deliver(p, r)
  \/ \E p \in Procs : Handler(p)
  \/ \E p \in Procs : SignerTtlExpires(p)
  \/ \E h \in Hashes : Mine(h)
  \/ \E k \in Cycles : Reconciler(k)
  \/ RecTtlExpires

OrderlySpec == Init /\ [][OrderlyNext]_vars

\* the expiries are Redis's own: a key set with EX or PX is deleted once its
\* time has passed, whatever the workers do (worker.ts:36, PX of tryAcquireLock)
TtlFairness ==
  /\ WF_vars(RecTtlExpires)
  /\ \A p \in Procs : WF_vars(SignerTtlExpires(p))

RecoverySpec == Init /\ [][Next]_vars /\ TtlFairness

DuplicateNext ==
  \/ \E p \in Procs, r \in Reqs : Deliver(p, r)
  \/ \E r \in Reqs : Stalled(r)
  \/ \E p \in Procs : Handler(p)
  \/ \E p \in Procs : Crash(p)
  \/ \E p \in Procs : SignerTtlExpires(p)
  \/ \E h \in Hashes : Mine(h)

DuplicateSpec == Init /\ [][DuplicateNext]_vars

\* the reconciler on its own
ReconcileNext ==
  \/ \E k \in Single : Reconciler(k)
  \/ \E k \in Single : RecCrash(k)
  \/ RecTtlExpires

ReconcileSpec == ReconcileInitOn(Single, RowStates) /\ [][ReconcileNext]_vars

\* Cycles that keep running, keep obtaining the lock and whose queries and
\* lookups do not fail for ever: the timer starts a cycle every 60 s, the
\* lock runs out or is released, and a step that can succeed again and
\* again does succeed.
ReconcileLiveNext ==
  \/ \E k \in Single : Reconciler(k)
  \/ RecTtlExpires

ReconcileFairness ==
  /\ WF_vars(RecTtlExpires)
  /\ \A k \in Single :
       /\ WF_vars(Reconciler(k))
       /\ SF_vars(TryAcquireLock(k) /\ rpc'[k] = "fetch")
       /\ SF_vars(Fetch(k) /\ rows'[k] # <<>>)
       /\ SF_vars(Row(k) /\ rpc'[k] = "write")
       /\ SF_vars(Row(k) /\ status' # status)
       /\ SF_vars(Write(k) /\ status' # status)

ReconcileLiveSpec ==
  ReconcileInitOn(Single, RowStates) /\ [][ReconcileLiveNext]_vars /\ ReconcileFairness

OverlapNext ==
  \/ \E k \in Sweepers : Reconciler(k)
  \/ \E k \in Sweepers : RecCrash(k)
  \/ RecTtlExpires

OverlapSpec == ReconcileInitOn(Sweepers, OverlapRowStates) /\ [][OverlapNext]_vars

(***************************************************************************)
(* Properties                                                              *)
(***************************************************************************)
Running(r) == \E p \in Procs : job[p] = r
TransfersOf(r) == {h \in 1..Len(chain) : chain[h].req = r}

\* between a successful acquireLockWithBackoff and the end of releaseLock
InCritical(p) ==
  pc[p] \in {"estimate", "fee", "balance", "covers", "send", "writeB", "wait",
            "writeSent", "catch", "release"}

\* C1: for every row, the transaction hash is non-null if and only if the
\* status is broadcast or sent, in every reachable state.
C1_HashIffBroadcastOrSent ==
  \A r \in Reqs : (tx_hash[r] # NULL) <=> (status[r] \in {"broadcast", "sent"})

\* C2: for every request, the chain accepts at most one transfer, whatever
\* the queue redelivers and retryRpc retries.
C2_AtMostOneTransfer ==
  \A r \in Reqs : Cardinality(TransfersOf(r)) <= 1

\* C3: no two handler invocations are at once between their acquisition of
\* the nonce lock and their release of it.
C3_OneInCriticalSection ==
  \A p, q \in Procs : (p # q) => ~(InCritical(p) /\ InCritical(q))

\* C4: once an acquire has succeeded, no other acquire succeeds until that
\* holder has released the lock or its TTL has run out: at most one
\* acquisition is unreleased and unexpired at a time.
C4_OneLiveAcquisition ==
  Cardinality({p \in Procs : lease[p]}) <= 1

\* C5: a release deletes the key only if the key is the one the releasing
\* holder set: a release by a holder whose lock ran out and was acquired by
\* another invocation leaves that invocation's key in place.
C5_ReleaseLeavesOthersKey ==
  [][\A p \in Procs :
       (pc[p] = "release" /\ pc'[p] = "idle" /\ nonceLock # 0 /\ nonceLock # p)
         => nonceLock' = nonceLock]_vars

AllowedTransitions ==
  { <<"queued", "broadcast">>, <<"queued", "failed">>,
    <<"broadcast", "sent">>, <<"broadcast", "failed">> }

\* C6: the status of a row changes only along queued->broadcast,
\* queued->failed, broadcast->sent or broadcast->failed.
C6_ForwardOnly ==
  [][\A r \in Reqs :
       status'[r] # status[r] => <<status[r], status'[r]>> \in AllowedTransitions]_vars

\* C7: a row that is sent has stood at broadcast before, and a row that is
\* still queued has not: no row goes from queued straight to sent.
C7_SentOnlyAfterBroadcast ==
  \A r \in Reqs :
    /\ status[r] = "sent" => everBroadcast[r]
    /\ status[r] = "queued" => ~everBroadcast[r]

C7_Witness ==
  \E r \in Reqs : status[r] = "sent" /\ everBroadcast[r] /\ ~Running(r)

\* C8: an invocation waits for the confirmation of a hash only after its
\* write left the row at broadcast with that hash; when the write fails
\* the invocation is not waiting.
C8_WaitOnlyAfterCheckpoint ==
  \A p \in Procs :
    pc[p] = "wait" => (tx[p] # NULL /\ checkpoint[p] = tx[p])

C8_Witness ==
  \E p \in Procs : pc[p] = "wait" /\ attempt[p] > 0 /\ checkpoint[p] = tx[p]

\* C9: when the chain has accepted a transfer of a request and no handler
\* invocation of that request is running, the row holds that transfer's hash.
C9_AcceptedTransferTracked ==
  \A h \in 1..Len(chain) :
    ~Running(chain[h].req) => tx_hash[chain[h].req] = h

AllRetryable(script) ==
  \A i \in 1..Len(script) : isRetryableError(script[i]) /\ ~failFast(script[i])

RetryDone == rr.pc \in {"returned", "thrown"}

\* C10 as stated: with N < maxRetries the value is returned after N retries
\* (N+1 calls); with N >= maxRetries the last error is rethrown after
\* exactly maxRetries calls.
C10_AsStated ==
  (RetryDone /\ AllRetryable(rr.script)) =>
    IF Len(rr.script) < rr.maxRetries
      THEN rr.pc = "returned" /\ rr.sleeps = Len(rr.script)
           /\ rr.calls = Len(rr.script) + 1
      ELSE rr.pc = "thrown" /\ rr.calls = rr.maxRetries

\* C10 amended: an operation that fails N times with retryable errors and
\* then succeeds returns after exactly N retries (N+1 calls) if
\* N <= maxRetries; if N > maxRetries the error of call maxRetries+1, the
\* last one observed, is rethrown after exactly maxRetries retries.
C10_RetryBudget ==
  (RetryDone /\ AllRetryable(rr.script)) =>
    IF Len(rr.script) <= rr.maxRetries
      THEN rr.pc = "returned" /\ rr.sleeps = Len(rr.script)
           /\ rr.calls = Len(rr.script) + 1
      ELSE rr.pc = "thrown" /\ rr.sleeps = rr.maxRetries
           /\ rr.calls = rr.maxRetries + 1
           /\ rr.thrown = rr.script[rr.maxRetries + 1]

C10_Witness ==
  /\ rr.pc = "thrown" /\ AllRetryable(rr.script)
  /\ rr.maxRetries >= 2 /\ Len(rr.script) > rr.maxRetries
  /\ rr.script[1] # rr.script[rr.maxRetries + 1]

(***************************************************************************)
(* The classification table of the specification, by indicator.            *)
(***************************************************************************)
TableRetryable(e) ==
  \/ e.status = 429
  \/ (e.status >= 500 /\ e.status < 600)
  \/ CodeIncludes(e.code, "NETWORK") \/ CodeIncludes(e.code, "TIMEOUT")
  \/ WordsIn(e.msg) \cap NetworkWords # {}
  \/ (e.status = 403 /\ WordsIn(e.msg) \cap ThrottleWords # {})

TableFailFast(e) ==
  \/ e.status = 400 \/ e.status = 401
  \/ e.code \in {"CALL_EXCEPTION", "UNPREDICTABLE_GAS_LIMIT", "INVALID_ARGUMENT",
                 "INSUFFICIENT_FUNDS"}
  \/ WordsIn(e.msg) \cap {"revert", "execution reverted", "invalid argument",
                          "invalid address", "insufficient funds"} # {}

\* the first call of the operation has failed and retryRpc has decided
FirstFailureDecided ==
  /\ Len(rr.script) >= 1 /\ rr.calls = 1 /\ rr.maxRetries > 0
  /\ rr.pc \in {"sleep", "thrown"}

\* C11: retryRpc treats an error as retryable (it backs off and calls again)
\* exactly when the table says so: a retryable indicator (429, 5xx,
\* connection/timeout/DNS, throttling 403) and no fail-fast indicator
\* (400/401, invalid parameter, execution reverted, insufficient funds);
\* every other error is rethrown at once.
C11_ClassificationTable ==
  FirstFailureDecided =>
    LET e == rr.script[1] IN
      (rr.pc = "sleep") <=> (TableRetryable(e) /\ ~TableFailFast(e))

\* what the cycle makes of a fetched row: the status it writes, or "unchanged"
Resolution(row) ==
  IF row.tx_hash = NULL THEN "failed"
  ELSE CASE Receipt(row.tx_hash) = "success" -> "sent"
         [] Receipt(row.tx_hash) = "reverted" -> "failed"
         [] OTHER -> "unchanged"

\* sweeper k is done with the row at the head of its batch
RowDone(k) ==
  /\ rpc[k] \in {"row", "write"} /\ rpc'[k] # "idle"
  /\ rows[k] # <<>> /\ rows'[k] = Tail(rows[k])

\* C12: a cycle changes a row only when it is done with it as a fetched
\* (broadcast) row, and then to failed for a null hash, sent for a success
\* outcome, failed for a revert; a pending or unexpected outcome changes
\* nothing; a row with a null hash the cycle is done with is failed; no
\* hash is changed and no row outside the batch is touched.
C12_CycleResolvesByOutcome ==
  [][/\ tx_hash' = tx_hash
     /\ \A r \in Rows : status'[r] # status[r] =>
          \E k \in DOMAIN rpc : /\ RowDone(k) /\ Head(rows[k]).id = r
                               /\ status'[r] = Resolution(Head(rows[k]))
     /\ \A k \in DOMAIN rpc : (RowDone(k) /\ Head(rows[k]).tx_hash = NULL)
                                => status'[Head(rows[k]).id] = "failed"]_vars

\* three broadcast rows, with no hash, a success and a revert, after a sweep
C12_Witness ==
  /\ \A k \in DOMAIN rpc : rpc[k] = "idle"
  /\ \E a, b, c \in Rows :
       /\ everBroadcast[a] /\ tx_hash[a] = NULL /\ status[a] = "failed"
       /\ everBroadcast[b] /\ tx_hash[b] # NULL /\ status[b] = "sent"
       /\ everBroadcast[c] /\ tx_hash[c] # NULL /\ status[c] = "failed"
            /\ Receipt(tx_hash[c]) = "reverted"

\* C13: a cycle fetches a batch only while fewer than MAX_LOOPS loop tests
\* have passed; it goes back to fetch only after a batch of exactly BATCH
\* rows; a batch of fewer rows, or of none, is the last of its cycle.
C13_EarlyStopAndBudget ==
  [][\A k \in DOMAIN rpc :
       /\ (rpc[k] = "fetch" /\ rpc'[k] = "row") =>
            /\ loops[k] < MAX_LOOPS /\ loops'[k] = loops[k] + 1
            /\ rows'[k] # <<>>
            /\ full'[k] = (Len(rows'[k]) = BATCH)
       /\ (rpc[k] = "fetch" /\ rpc'[k] = "release" /\ loops[k] < MAX_LOOPS) =>
            rows'[k] = <<>>
       /\ (rpc[k] \in {"row", "write"} /\ rpc'[k] = "fetch") => full[k]
       /\ (rpc[k] \in {"row", "write"} /\ rpc'[k] \in {"row", "write"}) =>
            (full'[k] = full[k] /\ loops'[k] = loops[k])]_vars

\* a cycle that resolved a row ends after one short batch, its budget unspent
\* and a broadcast row still waiting for its outcome
C13_Witness ==
  \E k \in DOMAIN rpc :
    /\ rpc[k] = "release" /\ loops[k] = 1 /\ loops[k] < MAX_LOOPS /\ ~full[k]
    /\ \E r \in Rows : everBroadcast[r] /\ status[r] = "sent"
    /\ \E r \in Rows : status[r] = "broadcast" /\ tx_hash[r] # NULL
                         /\ Receipt(tx_hash[r]) = "pending"

C15_SentOnlyOnSuccess ==
  \A r \in DOMAIN status :
    status[r] = "sent" =>
      (tx_hash[r] # NULL /\ chain[tx_hash[r]].outcome = "success")

\* cycle k holds a token and is inside reconcileBroadcastsOnce
Sweeping(k) == rpc[k] \in {"fetch", "row", "write"}

\* C16: at most one reconciler sweep is in progress at any time.
C16_OneSweepAtATime ==
  Cardinality({k \in DOMAIN rpc : Sweeping(k)}) <= 1

\* C17: every broadcast row whose transfer has a success or revert outcome
\* is in the end moved to sent or failed, whatever the other rows are.
C17_BroadcastEventuallyResolved ==
  \A r \in Rows :
    (status[r] = "broadcast" /\ tx_hash[r] # NULL
       /\ Receipt(tx_hash[r]) \in {"success", "reverted"})
      ~> (status[r] \in {"sent", "failed"})

\* C18: a first failure that is fail-fast or not retryable is rethrown after
\* one call and no sleep; retryRpc sleeps only after a retryable failure
\* that is not fail-fast, with the attempt count below maxRetries.
C18_SleepOnlyWhenRetryable ==
  /\ (rr.calls >= 1 /\ Len(rr.script) >= 1
        /\ (failFast(rr.script[1]) \/ ~isRetryableError(rr.script[1]))) =>
       /\ rr.pc = "thrown" /\ rr.calls = 1 /\ rr.sleeps = 0
       /\ rr.thrown = rr.script[1]
  /\ rr.pc = "sleep" =>
       /\ isRetryableError(rr.script[rr.calls]) /\ ~failFast(rr.script[rr.calls])
       /\ rr.attempt < rr.maxRetries
  /\ rr.sleeps = rr.attempt
  /\ rr.pc \in {"returned", "thrown"} => rr.calls = rr.sleeps + 1

\* an error that is both fail-fast and retryable has been rethrown at once
C18_Witness ==
  /\ rr.pc = "thrown" /\ rr.calls = 1 /\ rr.sleeps = 0 /\ rr.maxRetries >= 1
  /\ failFast(rr.script[1]) /\ isRetryableError(rr.script[1])

C20_AcquireFailureChangesNothing ==
  [][\A p \in Procs :
       (pc[p] = "acquire" /\ attempt[p] = maxAttempts - 1 /\ nonceLock # 0
          /\ pc'[p] # "acquire") =>
         /\ pc'[p] = "idle" /\ pending'[job[p]]
         /\ status' = status /\ tx_hash' = tx_hash
         /\ chain' = chain
         /\ nonceLock' = nonceLock]_vars

\* the last attempt of an invocation finds the key another invocation set
C20_Witness ==
  \E p \in Procs :
    /\ pc[p] = "acquire" /\ attempt[p] = maxAttempts - 1
    /\ nonceLock # 0 /\ nonceLock # p

\* C21: while no process dies, a handler that holds the signer lock reaches
\* its end only by the step that calls releaseLock, and a cycle that holds
\* the reconciler lock never ends while it sweeps: it goes to its own
\* releaseLock first, whether it returns, times out, swallows or rethrows an
\* error, or the sweep or the failed write throws.
C21_ReleaseBeforeFinish ==
  [][/\ \A p \in Procs :
          (InCritical(p) /\ pc'[p] = "idle") => pc[p] = "release"
     /\ \A k \in Cycles :
          (Sweeping(k) /\ rpc'[k] # rpc[k])
            => rpc'[k] \in {"fetch", "row", "write", "release"}]_vars

\* the failed write of the catch-all has thrown and the handler is at its
\* releaseLock, while a cycle is at its own
C21_Witness ==
  /\ \E p \in Procs : pc[p] = "release" /\ exit[p] = "throwDb"
  /\ \E k \in Cycles : rpc[k] = "release"

\* C22: a signer lock left by a handler that died, and a reconciler lock
\* left by a cycle that died, are free again in the end (their TTL runs out
\* if nobody deletes them), so that the next acquire finds no key.
C22_CrashedLockRecovers ==
  /\ \A p \in Procs : (nonceLock = p /\ pc[p] = "idle") ~> (nonceLock = 0)
  /\ (recLock # 0 /\ \A k \in Cycles : rtoken[k] # recLock) ~> (recLock = 0)

\* both locks are held by nobody alive
C22_Witness ==
  /\ \E p \in Procs : nonceLock = p /\ pc[p] = "idle"
  /\ recLock # 0 /\ \A k \in Cycles : rtoken[k] # recLock

\* C23: a handler that is past its broadcast write and about to write sent
\* finds the row as it left it or as the reconciler has resolved it since;
\* a row the reconciler has set to sent or failed keeps that status.
C23_PipelineKeepsReconcilerStatus ==
  [][\A p \in Procs :
       (pc[p] = "writeSent" /\ status[job[p]] \in {"sent", "failed"})
         => status'[job[p]] = status[job[p]]]_vars

\* C24: a write of the reconciler changes a row only if the row is still
\* broadcast with the hash the cycle fetched; a row whose status or hash a
\* handler has changed since the fetch is left as the handler wrote it.
C24_ReconcilerWriteIsConditional ==
  [][\A k \in Cycles :
       (/\ RowDone(k)
        /\ \/ status[Head(rows[k]).id] # "broadcast"
           \/ tx_hash[Head(rows[k]).id] # Head(rows[k]).tx_hash)
         => /\ status'[Head(rows[k]).id] = status[Head(rows[k]).id]
            /\ tx_hash'[Head(rows[k]).id] = tx_hash[Head(rows[k]).id]]_vars

\* C25: the step that estimates the gas never hands an error to the
\* catch-all and never touches the row: it leaves the handler at the fee
\* quote with the estimate or, after any failure, with FALLBACK_GAS_LIMIT,
\* and that gas limit is the one kept through the fee quote, the balance
\* check and the submission.
C25_EstimateFailureFallsBack ==
  [][\A p \in Procs :
       /\ (pc[p] = "estimate" /\ pc'[p] \notin {"estimate", "idle"}) =>
            /\ pc'[p] = "fee" /\ err'[p] = NoErr
            /\ gasLimit'[p] \in {GasEstimate, FALLBACK_GAS_LIMIT}
            /\ status' = status /\ tx_hash' = tx_hash
       /\ (/\ pc[p] \in {"fee", "balance", "covers", "send"}
           /\ pc'[p] \in {"fee", "balance", "covers", "send"}) =>
            gasLimit'[p] = gasLimit[p]]_vars

\* the estimate has failed and the handler is at the submission with the
\* fallback gas limit
C25_Witness ==
  \E p \in Procs : pc[p] = "send" /\ gasLimit[p] = FALLBACK_GAS_LIMIT

C27_NoWaitAfterTimeout ==
  \A p \in Procs : pc[p] = "wait" => ~saysTimeout(err[p])

====
